---- MODULE Spec2Model ----
(***************************************************************************)
(* Model of the portfolio site in src/main.py: three tables (users,        *)
(* project_posts, contacts), the flask-login session of each browser, and  *)
(* one action per route handler.  The register handler is split at its     *)
(* existence check so that concurrent registrations interleave; every      *)
(* other handler is one step.                                              *)
(***************************************************************************)
EXTENDS Integers, Sequences, FiniteSets, TLC

\* ---------------------------------------------------------------- bounds
MaxId == 3          \* highest primary key any table hands out
MaxInFlight == 2    \* register requests between their check and their commit
MaxContacts == 2    \* rows in the contacts table

\* ------------------------------------------------------------ input sets
Sessions == {"s1", "s2"}
Emails == {"a@x.com", "b@x.com"}
Passwords == {<<"p", "w", "1">>, <<"p", "w", "2">>}
Salts == {"k1", "k2"}
Names == {"A"}
Titles == {"T1", "T2"}
Subjects == {"hi"}
Messages == {"m1", "m2"}
Dialects == {"sqlite", "postgresql"}
MailFaults == {"none", "connect", "starttls", "login", "sendmail"}

ADMIN_ID == 1

None == [None |-> TRUE]
AnonymousUser == [is_authenticated |-> FALSE]

VARIABLES
    dialect,        \* storage engine behind DATABASE_URL
    users,          \* rows of table "users"
    project_posts,  \* rows of table "project_posts"
    contacts,       \* rows of table "contacts"
    seq,            \* per table: last value of its serial (postgresql only)
    session,        \* per browser session: {} or {user id} ("_user_id")
    pending,        \* register requests past the existence check
    last,           \* the handler step just taken and its outcome
    logged_out      \* history: sessions logged out and not signed in since

vars == <<dialect, users, project_posts, contacts, seq, session, pending,
          last, logged_out>>

\* --------------------------------------------------------------- helpers
Max(S) == IF S = {} THEN 0 ELSE CHOOSE m \in S : \A x \in S : x <= m

Ids(rows) == {r.id : r \in rows}

\* primary key of the next inserted row: sqlite hands out max(rowid)+1,
\* postgresql the next value of the table's serial
NextId(table, rows) ==
    IF dialect = "sqlite" THEN Max(Ids(rows)) + 1 ELSE seq[table] + 1

\* an INSERT draws from the serial whether or not the commit succeeds
Bump(table) ==
    IF dialect = "sqlite" THEN seq ELSE [seq EXCEPT ![table] = @ + 1]

\* ------------------------------------------------------- password hashes
\* stands for PBKDF2-HMAC-SHA256 of the password under the salt
Digest(salt, password) == <<"sha256", salt, password>>

\* slip: the submitted password is stored as it came
generate_password_hash_plain(password, salt) == password

generate_password_hash(password, salt) ==
    <<"pbkdf2:sha256", salt, Digest(salt, password)>>

check_password_hash(pwhash, password) ==
    /\ Len(pwhash) = 3
    /\ pwhash[1] = "pbkdf2:sha256"
    /\ pwhash[3] = Digest(pwhash[2], password)

\* ---------------------------------------------------------------- forms
EmptyRegisterForm == [email |-> "", password |-> <<>>, name |-> ""]
RegisterForm(email, password) == [email |-> email, password |-> password, name |-> "A"]
\* two people choose the first address, with different passwords
RegisterForms ==
    {RegisterForm("a@x.com", <<"p", "w", "1">>),
     RegisterForm("a@x.com", <<"p", "w", "2">>),
     RegisterForm("b@x.com", <<"p", "w", "2">>)}

EmptyLoginForm == [email |-> "", password |-> <<>>]
LoginForms == [email : Emails, password : Passwords]

EmptyProjectForm == [title |-> "", subtitle |-> "", body |-> "", img_url |-> ""]
ProjectForm(title, subtitle, body, img_url) ==
    [title |-> title, subtitle |-> subtitle, body |-> body, img_url |-> img_url]
\* every field takes two values; one submission lacks its title
ProjectForms ==
    {ProjectForm("T1", "x", "x", "x"), ProjectForm("T1", "y", "y", "y"),
     ProjectForm("T2", "x", "y", "x"), ProjectForm("T2", "y", "x", "y"),
     ProjectForm("", "x", "x", "x")}

EmptyContactForm == [name |-> "", email |-> "", subject |-> "", message |-> ""]
ContactForms ==
    [name : Names, email : Emails, subject : Subjects \cup {""}, message : Messages]

\* a GET carries no form data
Requests(forms, empty) ==
    {[method |-> "GET", form |-> empty]}
        \cup {[method |-> "POST", form |-> f] : f \in forms}

RegisterForm_validate(form) ==
    form.email # "" /\ form.password # <<>> /\ form.name # ""

LoginForm_validate(form) == form.email # "" /\ form.password # <<>>

CreateProjectForm_validate(form) ==
    form.title # "" /\ form.subtitle # "" /\ form.body # "" /\ form.img_url # ""

ContactForm_validate(form) ==
    form.name # "" /\ form.email # "" /\ form.subject # "" /\ form.message # ""

\* --------------------------------------------------------------- queries
User_query_filter_by_email(email) ==
    IF \E u \in users : u.email = email
    THEN CHOOSE u \in users : u.email = email
    ELSE None

User_query_get(id) ==
    IF \E u \in users : u.id = id
    THEN CHOOSE u \in users : u.id = id
    ELSE None

ProjectPost_query_all == project_posts

ProjectPost_query_get(id) ==
    IF \E p \in project_posts : p.id = id
    THEN CHOOSE p \in project_posts : p.id = id
    ELSE None

load_user(user_id) == User_query_get(user_id)

current_user(s) ==
    IF session[s] = {} THEN AnonymousUser
    ELSE LET u == load_user(CHOOSE id \in session[s] : TRUE)
         IN  IF u = None THEN AnonymousUser ELSE u

\* ------------------------------------------------------------- responses
Respond(op, s, arg, req, outcome) ==
    /\ last' = [op |-> op, s |-> s, uid |-> session[s], arg |-> arg,
                method |-> req.method, form |-> req.form, outcome |-> outcome]
    /\ logged_out' = {t \in logged_out : session'[t] = {}}
                        \cup (IF op = "logout" THEN {s} ELSE {})

NoForm == [method |-> "GET", form |-> None]

TypeOK ==
    /\ dialect \in Dialects
    /\ \A u \in users : u.id \in 1..MaxId /\ u.email \in Emails
    /\ \A p \in project_posts : p.id \in 1..MaxId /\ p.title \in Titles
    /\ \A s \in Sessions : session[s] \subseteq 1..MaxId /\ Cardinality(session[s]) <= 1
    /\ logged_out \subseteq Sessions

Init ==
    /\ dialect \in Dialects
    /\ users = {}
    /\ project_posts = {}
    /\ contacts = {}
    /\ seq = [users |-> 0, project_posts |-> 0, contacts |-> 0]
    /\ session = [s \in Sessions |-> {}]
    /\ pending = {}
    /\ last = [op |-> "start", s |-> "s1", uid |-> {}, arg |-> {},
               method |-> "GET", form |-> None, outcome |-> "200"]
    /\ logged_out = {}

\* ------------------------------------------------------ public read pages
get_all_projects(s) ==
    /\ UNCHANGED <<dialect, users, project_posts, contacts, seq, session, pending>>
    /\ Respond("get_all_projects", s, {}, NoForm, "200")

show_project(s, project_id) ==
    /\ UNCHANGED <<dialect, users, project_posts, contacts, seq, session, pending>>
    /\ Respond("show_project", s, {project_id}, NoForm, "200")

about(s) ==
    /\ UNCHANGED <<dialect, users, project_posts, contacts, seq, session, pending>>
    /\ Respond("about", s, {}, NoForm, "200")

\* --------------------------------------------------------------- register
\* validation and the existence check
register_validate(s, req) ==
    /\ UNCHANGED <<dialect, users, project_posts, contacts, seq, session>>
    /\ IF ~(req.method = "POST" /\ RegisterForm_validate(req.form))
       THEN /\ Respond("register", s, {}, req, "200")
            /\ UNCHANGED pending
       ELSE IF User_query_filter_by_email(req.form.email) # None
       THEN /\ Respond("register", s, {}, req, "302:/admin")
            /\ UNCHANGED pending
       ELSE /\ Cardinality(pending) < MaxInFlight
            /\ [s |-> s, form |-> req.form] \notin pending
            /\ pending' = pending \cup {[s |-> s, form |-> req.form]}
            /\ Respond("register", s, {}, req, "(in flight)")

\* hash, insert, commit, login_user
register_commit(r) ==
    /\ r \in pending
    /\ NextId("users", users) <= MaxId
    /\ pending' = pending \ {r}
    /\ seq' = Bump("users")
    /\ UNCHANGED <<dialect, project_posts, contacts>>
    /\ LET id == NextId("users", users)
           req == [method |-> "POST", form |-> r.form]
       IN  IF \E u \in users : u.email = r.form.email
           THEN /\ UNCHANGED <<users, session>>
                /\ Respond("register", r.s, {}, req, "500:IntegrityError")
           ELSE \E salt \in Salts :
                /\ users' = users \cup
                      {[id |-> id, email |-> r.form.email,
                        password |-> generate_password_hash(r.form.password, salt),
                        name |-> r.form.name]}
                /\ session' = [session EXCEPT ![r.s] = {id}]
                /\ Respond("register", r.s, {}, req, "302:/")

\* ------------------------------------------------------------------ login
\* slip: the password comparison is left out
login_any_password(s, req) ==
    /\ UNCHANGED <<dialect, users, project_posts, contacts, seq, pending>>
    /\ IF ~(req.method = "POST" /\ LoginForm_validate(req.form))
       THEN /\ UNCHANGED session
            /\ Respond("login", s, {}, req, "200")
       ELSE LET user == User_query_filter_by_email(req.form.email)
            IN  IF user = None
                THEN /\ UNCHANGED session
                     /\ Respond("login", s, {}, req, "302:/admin")
                ELSE /\ session' = [session EXCEPT ![s] = {user.id}]
                     /\ Respond("login", s, {}, req, "302:/")

login(s, req) ==
    /\ UNCHANGED <<dialect, users, project_posts, contacts, seq, pending>>
    /\ IF ~(req.method = "POST" /\ LoginForm_validate(req.form))
       THEN /\ UNCHANGED session
            /\ Respond("login", s, {}, req, "200")
       ELSE LET user == User_query_filter_by_email(req.form.email)
            IN  IF user = None
                THEN /\ UNCHANGED session
                     /\ Respond("login", s, {}, req, "302:/admin")
                ELSE IF ~check_password_hash(user.password, req.form.password)
                THEN /\ UNCHANGED session
                     /\ Respond("login", s, {}, req, "302:/admin")
                ELSE /\ session' = [session EXCEPT ![s] = {user.id}]
                     /\ Respond("login", s, {}, req, "302:/")

\* slip: the redirect is sent without ending the session
logout_keep_session(s) ==
    /\ UNCHANGED session
    /\ Respond("logout", s, {}, NoForm, "302:/")
    /\ UNCHANGED <<dialect, users, project_posts, contacts, seq, pending>>

logout(s) ==
    /\ session' = [session EXCEPT ![s] = {}]
    /\ Respond("logout", s, {}, NoForm, "302:/")
    /\ UNCHANGED <<dialect, users, project_posts, contacts, seq, pending>>

\* ---------------------------------------------------------------- contact
\* the SMTP conversation of lines 172-179; fault names the call that raises
smtp_send(fault) ==
    CASE fault = "none" -> "302:/contact"
      [] fault = "connect" -> "500:OSError(connect)"
      [] fault = "starttls" -> "500:SMTPException(starttls)"
      [] fault = "login" -> "500:SMTPAuthenticationError"
      [] fault = "sendmail" -> "500:SMTPException(sendmail)"

\* slip: the record is committed only once the mail has gone out
contact_commit_after_mail(s, req, fault) ==
    /\ UNCHANGED <<dialect, users, project_posts, session, pending>>
    /\ IF ~(req.method = "POST" /\ ContactForm_validate(req.form))
       THEN /\ UNCHANGED <<contacts, seq>>
            /\ Respond("contact", s, {}, req, "200")
       ELSE IF fault # "none"
       THEN /\ UNCHANGED <<contacts, seq>>
            /\ Respond("contact", s, {}, req, smtp_send(fault))
       ELSE LET id == NextId("contacts", contacts)
            IN  /\ Cardinality(contacts) < MaxContacts
                /\ contacts' = contacts \cup
                      {[id |-> id, name |-> req.form.name, email |-> req.form.email,
                        subject |-> req.form.subject, message |-> req.form.message]}
                /\ seq' = Bump("contacts")
                /\ Respond("contact", s, {}, req, smtp_send(fault))

contact(s, req, fault) ==
    /\ UNCHANGED <<dialect, users, project_posts, session, pending>>
    /\ IF ~(req.method = "POST" /\ ContactForm_validate(req.form))
       THEN /\ UNCHANGED <<contacts, seq>>
            /\ Respond("contact", s, {}, req, "200")
       ELSE LET id == NextId("contacts", contacts)
            IN  /\ Cardinality(contacts) < MaxContacts
                /\ contacts' = contacts \cup
                      {[id |-> id, name |-> req.form.name, email |-> req.form.email,
                        subject |-> req.form.subject, message |-> req.form.message]}
                /\ seq' = Bump("contacts")
                /\ Respond("contact", s, {}, req, smtp_send(fault))

\* ------------------------------------------------------------ admin routes
\* "call" when the wrapped view runs, else the response of the decorator
\* slip: any signed-in user passes
admin_only_any_user(s) ==
    IF current_user(s) = AnonymousUser THEN "500:AttributeError" ELSE "call"

admin_only(s) ==
    IF current_user(s) = AnonymousUser THEN "500:AttributeError"
    ELSE IF current_user(s).id # ADMIN_ID THEN "403"
    ELSE "call"

add_new_project(s, req) ==
    /\ UNCHANGED <<dialect, users, contacts, session, pending>>
    /\ IF admin_only(s) # "call"
       THEN /\ UNCHANGED <<project_posts, seq>>
            /\ Respond("add_new_project", s, {}, req, admin_only(s))
       ELSE IF ~(req.method = "POST" /\ CreateProjectForm_validate(req.form))
       THEN /\ UNCHANGED <<project_posts, seq>>
            /\ Respond("add_new_project", s, {}, req, "200")
       ELSE LET id == NextId("project_posts", project_posts)
            IN  /\ id <= MaxId
                /\ seq' = Bump("project_posts")
                /\ IF \E p \in project_posts : p.title = req.form.title
                   THEN /\ UNCHANGED project_posts
                        /\ Respond("add_new_project", s, {}, req, "500:IntegrityError")
                   ELSE /\ project_posts' = project_posts \cup
                              {[id |-> id, title |-> req.form.title,
                                subtitle |-> req.form.subtitle,
                                body |-> req.form.body,
                                img_url |-> req.form.img_url]}
                        /\ Respond("add_new_project", s, {id}, req, "302:/")

\* slip: the image reference is not written back
edit_project_keep_img_url(s, project_id, req) ==
    /\ UNCHANGED <<dialect, users, contacts, seq, session, pending>>
    /\ IF admin_only(s) # "call"
       THEN /\ UNCHANGED project_posts
            /\ Respond("edit_project", s, {project_id}, req, admin_only(s))
       ELSE LET project == ProjectPost_query_get(project_id)
            IN  IF project = None
                THEN /\ UNCHANGED project_posts
                     /\ Respond("edit_project", s, {project_id}, req, "500:AttributeError")
                ELSE IF ~(req.method = "POST" /\ CreateProjectForm_validate(req.form))
                THEN /\ UNCHANGED project_posts
                     /\ Respond("edit_project", s, {project_id}, req, "200")
                ELSE IF \E p \in project_posts \ {project} : p.title = req.form.title
                THEN /\ UNCHANGED project_posts
                     /\ Respond("edit_project", s, {project_id}, req, "500:IntegrityError")
                ELSE /\ project_posts' = (project_posts \ {project}) \cup
                           {[id |-> project.id, title |-> req.form.title,
                             subtitle |-> req.form.subtitle,
                             body |-> req.form.body,
                             img_url |-> project.img_url]}
                     /\ Respond("edit_project", s, {project_id}, req, "302:/project")

edit_project(s, project_id, req) ==
    /\ UNCHANGED <<dialect, users, contacts, seq, session, pending>>
    /\ IF admin_only(s) # "call"
       THEN /\ UNCHANGED project_posts
            /\ Respond("edit_project", s, {project_id}, req, admin_only(s))
       ELSE LET project == ProjectPost_query_get(project_id)
            IN  IF project = None
                THEN /\ UNCHANGED project_posts
                     /\ Respond("edit_project", s, {project_id}, req, "500:AttributeError")
                ELSE IF ~(req.method = "POST" /\ CreateProjectForm_validate(req.form))
                THEN /\ UNCHANGED project_posts
                     /\ Respond("edit_project", s, {project_id}, req, "200")
                ELSE IF \E p \in project_posts \ {project} : p.title = req.form.title
                THEN /\ UNCHANGED project_posts
                     /\ Respond("edit_project", s, {project_id}, req, "500:IntegrityError")
                ELSE /\ project_posts' = (project_posts \ {project}) \cup
                           {[id |-> project.id, title |-> req.form.title,
                             subtitle |-> req.form.subtitle,
                             body |-> req.form.body,
                             img_url |-> req.form.img_url]}
                     /\ Respond("edit_project", s, {project_id}, req, "302:/project")

\* slip: the row is marked deleted but the commit is missing
delete_project_no_commit(s, project_id) ==
    /\ UNCHANGED <<dialect, users, contacts, seq, session, pending>>
    /\ UNCHANGED project_posts
    /\ IF admin_only(s) # "call"
       THEN Respond("delete_project", s, {project_id}, NoForm, admin_only(s))
       ELSE IF ProjectPost_query_get(project_id) = None
       THEN Respond("delete_project", s, {project_id}, NoForm,
                    "500:UnmappedInstanceError")
       ELSE Respond("delete_project", s, {project_id}, NoForm, "302:/")

delete_project(s, project_id) ==
    /\ UNCHANGED <<dialect, users, contacts, seq, session, pending>>
    /\ IF admin_only(s) # "call"
       THEN /\ UNCHANGED project_posts
            /\ Respond("delete_project", s, {project_id}, NoForm, admin_only(s))
       ELSE LET project_to_delete == ProjectPost_query_get(project_id)
            IN  IF project_to_delete = None
                THEN /\ UNCHANGED project_posts
                     /\ Respond("delete_project", s, {project_id}, NoForm,
                                "500:UnmappedInstanceError")
                ELSE /\ project_posts' = project_posts \ {project_to_delete}
                     /\ Respond("delete_project", s, {project_id}, NoForm, "302:/")

\* --------------------------------------------------------- specifications
Next ==
    \/ \E s \in Sessions : get_all_projects(s)
    \/ \E s \in Sessions, i \in 1..MaxId : show_project(s, i)
    \/ \E s \in Sessions : about(s)
    \/ \E s \in Sessions, req \in Requests(RegisterForms, EmptyRegisterForm) :
          register_validate(s, req)
    \/ \E r \in [s : Sessions, form : RegisterForms] : register_commit(r)
    \/ \E s \in Sessions, req \in Requests(LoginForms, EmptyLoginForm) : login(s, req)
    \/ \E s \in Sessions : logout(s)
    \/ \E s \in Sessions, req \in Requests(ContactForms, EmptyContactForm),
          fault \in MailFaults : contact(s, req, fault)
    \/ \E s \in Sessions, req \in Requests(ProjectForms, EmptyProjectForm) :
          add_new_project(s, req)
    \/ \E s \in Sessions, i \in 1..MaxId,
          req \in Requests(ProjectForms, EmptyProjectForm) : edit_project(s, i, req)
    \/ \E s \in Sessions, i \in 1..MaxId : delete_project(s, i)

Spec == Init /\ [][Next]_vars

\* registration and sign-in, from the empty database
NextAuth ==
    \/ \E s \in Sessions, req \in Requests(RegisterForms, EmptyRegisterForm) :
          register_validate(s, req)
    \/ \E r \in [s : Sessions, form : RegisterForms] : register_commit(r)
    \/ \E s \in Sessions, req \in Requests(LoginForms, EmptyLoginForm) : login(s, req)
    \/ \E s \in Sessions : logout(s)

SpecAuth == Init /\ [][NextAuth]_vars

\* the contact form, from the empty database
NextContact ==
    \/ \E s \in Sessions, req \in Requests(ContactForms, EmptyContactForm),
          fault \in MailFaults : contact(s, req, fault)
    \/ \E s \in Sessions : about(s)

SpecContact == Init /\ [][NextContact]_vars

\* the project routes, from the database two registrations leave behind
\* (SpecAuth reaches these tables: a@x.com registers first and is user 1);
\* the two sessions are browsers that have not signed in yet
InitProjects ==
    /\ dialect \in Dialects
    /\ users = {[id |-> 1, email |-> "a@x.com", name |-> "A",
                 password |-> generate_password_hash(<<"p", "w", "1">>, "k1")],
                [id |-> 2, email |-> "b@x.com", name |-> "A",
                 password |-> generate_password_hash(<<"p", "w", "2">>, "k2")]}
    /\ project_posts = {}
    /\ contacts = {}
    /\ seq = IF dialect = "sqlite"
             THEN [users |-> 0, project_posts |-> 0, contacts |-> 0]
             ELSE [users |-> 2, project_posts |-> 0, contacts |-> 0]
    /\ session = [s \in Sessions |-> {}]
    /\ pending = {}
    /\ last = [op |-> "start", s |-> "s1", uid |-> {}, arg |-> {},
               method |-> "GET", form |-> None, outcome |-> "200"]
    /\ logged_out = {}

NextProjects ==
    \/ \E s \in Sessions : get_all_projects(s)
    \/ \E s \in Sessions, i \in 1..MaxId : show_project(s, i)
    \/ \E s \in Sessions, req \in Requests(LoginForms, EmptyLoginForm) : login(s, req)
    \/ \E s \in Sessions : logout(s)
    \/ \E s \in Sessions, req \in Requests(ProjectForms, EmptyProjectForm) :
          add_new_project(s, req)
    \/ \E s \in Sessions, i \in 1..MaxId,
          req \in Requests(ProjectForms, EmptyProjectForm) : edit_project(s, i, req)
    \/ \E s \in Sessions, i \in 1..MaxId : delete_project(s, i)

SpecProjects == InitProjects /\ [][NextProjects]_vars

\* ================================================================ claims
AdminOps == {"add_new_project", "edit_project", "delete_project"}

ValidPost(step) == step.method = "POST"

\* C1: the project_posts table changes only in a step of an admin route taken
\* by a session authenticated as user 1; an admin-route request of any other
\* session leaves the table unchanged.
C1_OnlyAdminMutatesProjects ==
    [][/\ project_posts' # project_posts
            => last'.op \in AdminOps /\ last'.uid = {ADMIN_ID}
       /\ (last'.op \in AdminOps /\ last'.uid # {ADMIN_ID})
            => project_posts' = project_posts]_vars

C1_Witness ==
    /\ last.op = "delete_project"
    /\ last.uid = {2}
    /\ \E p \in project_posts : p.id \in last.arg

\* C2: an admin-route request of an anonymous session or of a user other than
\* user 1 is answered with 403.
C2_RejectedIsForbidden ==
    (last.op \in AdminOps /\ last.uid # {ADMIN_ID}) => last.outcome = "403"

\* C3: no two users share an email, and a valid register step for an email
\* that a user already holds creates no record and redirects to /admin.
C3_DuplicateRegisterRedirects ==
    /\ [](\A u, v \in users : u.email = v.email => u = v)
    /\ [][(/\ last'.op = "register"
           /\ ValidPost(last') /\ RegisterForm_validate(last'.form)
           /\ \E u \in users : u.email = last'.form.email)
            => users' = users /\ last'.outcome = "302:/admin"]_vars

\* C4: a valid register request that completes for an email no user holds
\* adds exactly one user, whose stored password is the salted hash of the
\* submitted one and differs from it, signs the session in as that user and
\* redirects to the listing.
C4_NewEmailRegisters ==
    [][(/\ last'.op = "register"
        /\ ValidPost(last') /\ RegisterForm_validate(last'.form)
        /\ last'.outcome # "(in flight)"
        /\ ~ \E u \in users : u.email = last'.form.email)
         => /\ Cardinality(users') = Cardinality(users) + 1
            /\ users \subseteq users'
            /\ \A u \in users' \ users :
                  /\ u.email = last'.form.email
                  /\ u.name = last'.form.name
                  /\ u.password # last'.form.password
                  /\ u.password[3] = Digest(u.password[2], last'.form.password)
                  /\ session'[last'.s] = {u.id}
            /\ last'.outcome = "302:/"]_vars

C4_Witness ==
    /\ last.op = "register"
    /\ last.outcome = "302:/"
    /\ Cardinality(users) = 2
    /\ \E u \in users : u.email = last.form.email /\ session[last.s] = {u.id}

\* C5 as stated: a valid login signs the session in iff the email exists and
\* the password matches; after a failed login the session is anonymous.
C5_FailedLoginIsAnonymous ==
    [][(last'.op = "login" /\ ValidPost(last') /\ LoginForm_validate(last'.form))
         => IF \E u \in users : /\ u.email = last'.form.email
                                /\ u.password[3] =
                                      Digest(u.password[2], last'.form.password)
            THEN /\ last'.outcome = "302:/"
                 /\ \E u \in users : /\ u.email = last'.form.email
                                     /\ session'[last'.s] = {u.id}
            ELSE /\ last'.outcome # "302:/"
                 /\ session'[last'.s] = {}]_vars

\* C5 amended: a valid login signs the session in iff the email exists and
\* the password matches; a failed login leaves the session as it was.
C5_FailedLoginKeepsSession ==
    [][(last'.op = "login" /\ ValidPost(last') /\ LoginForm_validate(last'.form))
         => IF \E u \in users : /\ u.email = last'.form.email
                                /\ u.password[3] =
                                      Digest(u.password[2], last'.form.password)
            THEN /\ last'.outcome = "302:/"
                 /\ \E u \in users : /\ u.email = last'.form.email
                                     /\ session'[last'.s] = {u.id}
            ELSE /\ last'.outcome # "302:/"
                 /\ session'[last'.s] = session[last'.s]]_vars

C5_Witness ==
    /\ last.op = "login"
    /\ last.outcome = "302:/admin"
    /\ last.uid # {}
    /\ session[last.s] = last.uid

\* C6 as stated: a session that logged out stays anonymous, and only a
\* successful login on it signs it in again.
C6_OnlyLoginAfterLogout ==
    [][\A s \in logged_out :
          /\ session[s] = {}
          /\ session'[s] # {}
                => /\ last'.op = "login"
                   /\ last'.s = s
                   /\ last'.outcome = "302:/"]_vars

\* C6 amended: a session that logged out stays anonymous, and only a
\* successful login or a successful registration on it signs it in again.
C6_OnlyLoginOrRegisterAfterLogout ==
    [][\A s \in logged_out :
          /\ session[s] = {}
          /\ session'[s] # {}
                => /\ last'.op \in {"login", "register"}
                   /\ last'.s = s
                   /\ last'.outcome = "302:/"]_vars

C6_Witness ==
    /\ last.op = "login"
    /\ last.outcome = "302:/admin"
    /\ last.s \in logged_out
    /\ session[last.s] = {}
    /\ users # {}

\* C7: a valid contact submission adds exactly one contacts row holding the
\* submitted name, email, subject and message, whatever the mail relay does.
C7_ContactPersisted ==
    [][(last'.op = "contact" /\ ValidPost(last') /\ ContactForm_validate(last'.form))
         => /\ Cardinality(contacts') = Cardinality(contacts) + 1
            /\ contacts \subseteq contacts'
            /\ \A c \in contacts' \ contacts :
                  /\ c.name = last'.form.name
                  /\ c.email = last'.form.email
                  /\ c.subject = last'.form.subject
                  /\ c.message = last'.form.message]_vars

C7_Witness ==
    /\ last.op = "contact"
    /\ last.outcome = "500:SMTPException(starttls)"
    /\ Cardinality(contacts) = 2
    /\ \E c \in contacts : c.message = last.form.message /\ c.email = last.form.email

Edited(p, form) ==
    [id |-> p.id, title |-> form.title, subtitle |-> form.subtitle,
     body |-> form.body, img_url |-> form.img_url]

\* C8 as stated: a valid admin edit of an existing post overwrites its four
\* fields with the submitted values, keeps its id and leaves every other
\* record alone.
C8_EditOverwrites ==
    [][\A p \in project_posts :
          (/\ last'.op = "edit_project"
           /\ last'.uid = {ADMIN_ID}
           /\ last'.arg = {p.id}
           /\ ValidPost(last') /\ CreateProjectForm_validate(last'.form))
            => /\ project_posts' = (project_posts \ {p}) \cup {Edited(p, last'.form)}
               /\ users' = users
               /\ contacts' = contacts]_vars

\* C8 amended: a valid admin edit of an existing post whose submitted title
\* no other post holds overwrites its four fields with the submitted values,
\* keeps its id and leaves every other record alone; an edit with the post's
\* own values leaves the table as it was.
C8_EditOverwritesFreeTitle ==
    [][\A p \in project_posts :
          (/\ last'.op = "edit_project"
           /\ last'.uid = {ADMIN_ID}
           /\ last'.arg = {p.id}
           /\ ValidPost(last') /\ CreateProjectForm_validate(last'.form)
           /\ ~ \E q \in project_posts \ {p} : q.title = last'.form.title)
            => /\ project_posts' = (project_posts \ {p}) \cup {Edited(p, last'.form)}
               /\ Edited(p, last'.form) = p => project_posts' = project_posts
               /\ users' = users
               /\ contacts' = contacts]_vars

C8_Witness ==
    /\ last.op = "edit_project"
    /\ last.outcome = "302:/project"
    /\ Cardinality(project_posts) = 2
    /\ \E p \in project_posts : last.arg = {p.id} /\ p = Edited(p, last.form)

\* C9: an admin delete of an existing post removes that post and no other;
\* the listing and the lookup by its id no longer return it, and a post with
\* that id appears again only when a later create is given the id.
C9_DeleteRemoves ==
    [][/\ \A p \in project_posts :
             (/\ last'.op = "delete_project"
              /\ last'.uid = {ADMIN_ID}
              /\ last'.arg = {p.id})
               => /\ project_posts' = project_posts \ {p}
                  /\ ProjectPost_query_get(p.id)' = None
                  /\ \A q \in ProjectPost_query_all' : q.id # p.id
       /\ \A i \in Ids(project_posts') \ Ids(project_posts) :
             /\ last'.op = "add_new_project"
             /\ last'.arg = {i}
             /\ last'.outcome = "302:/"]_vars

C9_Witness ==
    /\ last.op = "delete_project"
    /\ last.outcome = "302:/"
    /\ project_posts # {}
    /\ \A p \in project_posts : p.id \notin last.arg

\* C10: no request ends in a commit that the store rejects for a duplicate
\* title or a duplicate email.
C10_NoRawStorageError == last.outcome # "500:IntegrityError"

====
